---- MODULE Spec2Model ----
(***************************************************************************)
(* State-machine model of the resume conversion backend: the three         *)
(* authenticated endpoints of main.py (/tailor, /convert-latex,            *)
(* /convert-json-to-latex) and the helpers they call (auth_utils.py,       *)
(* usage.py, utils.py, resume_processor.py, latex_converter.py,            *)
(* latex_utils.py, supabase_utils.py, email_service.py).                   *)
(*                                                                         *)
(* A request occupies a slot r.  The handlers are coroutines: one runs     *)
(* without interruption until it awaits something that suspends it (the    *)
(* upload being read, the model answering, pdflatex running in a thread),  *)
(* and only there may the handler of another request run.  Each action     *)
(* below is one such uninterrupted stretch of a handler, with every call   *)
(* it makes.  A stretch is written as a pipeline of stages, one per        *)
(* function of the source, each mapping a world (the handler's locals q    *)
(* and the stores) to a world; a stage does nothing once the request has   *)
(* been answered.  Every call to the outside draws its outcome with \E.    *)
(***************************************************************************)
EXTENDS Integers, Sequences, FiniteSets, TLC

\* ---------------------------------------------------------------- bounds
NumReqs == 2          \* requests of one behaviour (each slot serves one)

\* ------------------------------------------------------ program constants
DAILY_LIMIT == 3
MONTHLY_LIMIT == 30
MAX_FILE_SIZE == 10 * 1024 * 1024

Reqs == 1..NumReqs
Users == {"u1", "u2"}
Endpoints == {"tailor", "convert_latex", "convert_json"}
PdfEndpoints == {"convert_latex", "convert_json"}

\* A row of user_usage, or its absence (maybe_single() returns no data).
Row(d, m) == [present |-> TRUE, daily |-> d, monthly |-> m]
NoRow == [present |-> FALSE, daily |-> 0, monthly |-> 0]
Table(a, b) == [u \in Users |-> IF u = "u1" THEN a ELSE b]

\* Contents of user_usage when the service starts.
InitTables ==
    { Table(NoRow, Row(0, 0)),
      Table(Row(2, MONTHLY_LIMIT - 1), Row(DAILY_LIMIT + 1, 0)),
      Table(Row(0, MONTHLY_LIMIT), Row(DAILY_LIMIT, MONTHLY_LIMIT)) }

\* Bearer tokens a client may present.  kind "none": no Authorization
\* header; "bad": jwt.decode raises (the token's signature or expiry does
\* not verify, whatever subject it names); "nosub": decodes, no 'sub'
\* claim; "valid": decodes with a 'sub' claim.  u1's tokens carry an
\* 'email' claim, u2's do not.
Tokens ==
    { [kind |-> k, sub |-> "", email |-> FALSE] : k \in {"none", "nosub"} }
    \cup
    { [kind |-> "bad", sub |-> "u1", email |-> TRUE] }
    \cup
    { [kind |-> "valid", sub |-> u, email |-> (u = "u1")] : u \in Users }

\* Names of uploaded files, by their ending.
Filenames == {"", ".pdf", ".PDF", ".md", ".docx", ".doc", ".txt", ".exe"}
\* str.lower() on those names
Lower(name) == IF name = ".PDF" THEN ".pdf" ELSE name

\* Files pdflatex and the handlers leave in latex_output for one base name.
Exts == {".pdf", ".tex", ".aux", ".log", ".out"}

VARIABLES
    secret,                  \* auth_utils.py: secret is set (TRUE) or None
    email_secret,            \* email_service.py: secret is set or None
    resume_tailoring_chain,  \* main.py globals: chain handle is set or None
    latex_conversion_chain,
    user_usage,              \* table user_usage: user id -> row or NoRow
    resume_table,            \* table resume_table: sequence of rows
    bucket,                  \* storage bucket: set of object names
    latex_output,            \* working directory: set of <<base, ext>>
    outbox,                  \* emails the provider accepted
    req,                     \* per slot: the handler's locals and history
    call                     \* one call of a helper on its own: arguments, result

vars == << secret, email_secret, resume_tailoring_chain, latex_conversion_chain,
           user_usage, resume_table, bucket, latex_output, outbox, req, call >>

config == << secret, email_secret, resume_tailoring_chain, latex_conversion_chain >>

\* A slot no request has used yet.  steps, seen, after, alone, email_sent,
\* removal, responses and incr are history: what the handler did and what it was
\* answered; filename is the name of the upload, kept until its content has
\* been read and the extractor has looked at it.
Idle ==
    [ ep |-> "none", token |-> [kind |-> "none", sub |-> "", email |-> FALSE],
      pc |-> "idle", filename |-> "", text |-> "none",
      user_id |-> "", seen |-> [read |-> "unread", row |-> NoRow],
      daily |-> -1, monthly |-> -1,
      base |-> 0, returncode |-> -1, pdf |-> "none", conv |-> "none",
      public_url |-> 0, email_sent |-> "none", removal |-> "none",
      incr |-> "none", after |-> NoRow,
      alone |-> TRUE, steps |-> << >>,
      status |-> 0, detail |-> "", responses |-> 0,
      body |-> [resume_link |-> 0, pdf_filename |-> 0, text |-> ""] ]

\* No helper is being exercised on its own.
NoCall == [fn |-> "none"]

InFlight(r) == req[r].pc \notin {"idle", "done"}
Running(w) == w.q.pc # "done"

\* The world a stretch of request r starts from.
World(r) ==
    [ q |-> req[r], user_usage |-> user_usage, resume_table |-> resume_table,
      bucket |-> bucket, latex_output |-> latex_output, outbox |-> outbox ]

\* The stretch of request r ends in world w.
Commit(r, w) ==
    /\ req' = [req EXCEPT ![r] = w.q]
    /\ user_usage' = w.user_usage
    /\ resume_table' = w.resume_table
    /\ bucket' = w.bucket
    /\ latex_output' = w.latex_output
    /\ outbox' = w.outbox
    /\ UNCHANGED << config, call >>

Raise_without_response(w, st, dt) ==
    [w EXCEPT !.q = [@ EXCEPT !.pc = "done", !.detail = dt]]

\* raise HTTPException(status_code, detail): the request is answered.
Raise(w, st, dt) ==
    [w EXCEPT !.q = [@ EXCEPT !.pc = "done", !.status = st, !.detail = dt,
                              !.responses = @ + 1]]
Did(w, step) == [w EXCEPT !.q = [@ EXCEPT !.steps = Append(@, step)]]
\* The handler awaits; it resumes at pc.
Await(w, pc) == IF Running(w) THEN [w EXCEPT !.q.pc = pc] ELSE w

\* The except clauses that end each handler's try block: the status an
\* exception of the given kind leaves the handler with.
Surface(ep, kind) ==
    IF ep = "convert_latex" THEN 500
    ELSE IF kind = "ValueError" THEN 400
    ELSE 500
Throw(w, kind, msg) == Raise(w, Surface(w.q.ep, kind), msg)

Init ==
    /\ secret \in BOOLEAN
    /\ email_secret \in BOOLEAN
    /\ resume_tailoring_chain = TRUE
    /\ latex_conversion_chain = TRUE
    /\ user_usage \in InitTables
    /\ resume_table = << >>
    /\ bucket = {}
    /\ latex_output = {}
    /\ outbox = {}
    /\ req = [r \in Reqs |-> Idle]
    /\ call = NoCall

\* ---------------------------------------------------------------- auth
\* auth_utils.get_user_id_from_jwt: the status it raises (0: none) and the
\* user id it returns.
JwtUserId_unverified(sec, t) ==
    IF ~sec THEN [status |-> 500, detail |-> "SUPABASE_JWKS_SECRET not set.", user_id |-> ""]
    ELSE IF t.sub # ""
         THEN [status |-> 0, detail |-> "", user_id |-> t.sub]
         ELSE [status |-> 401, detail |-> "Invalid authentication credentials", user_id |-> ""]

JwtUserId(sec, t) ==
    IF ~sec THEN [status |-> 500, detail |-> "SUPABASE_JWKS_SECRET not set.", user_id |-> ""]
    ELSE IF t.kind = "valid"
         THEN [status |-> 0, detail |-> "", user_id |-> t.sub]
         ELSE [status |-> 401, detail |-> "Invalid authentication credentials", user_id |-> ""]

get_user_id_from_jwt(w) ==
    IF ~Running(w) THEN w
    ELSE LET res == JwtUserId(secret, w.q.token)
             w1 == Did(w, "auth")
         IN  IF res.status # 0 THEN Raise(w1, res.status, res.detail)
             ELSE [w1 EXCEPT !.q.user_id = res.user_id]

\* --------------------------------------------------------------- quota
\* data.get("daily_conversions", 0) on the row, or on {} when there is none
RowDaily(row) == IF row.present THEN row.daily ELSE 0
RowMonthly(row) == IF row.present THEN row.monthly ELSE 0

\* usage.check_user_usage_limits, its two comparisons: the 429 detail, or ""
LimitReached_monthly_first(daily, monthly) ==
    IF monthly >= MONTHLY_LIMIT THEN "Monthly conversion limit reached."
    ELSE IF daily >= DAILY_LIMIT THEN "Daily conversion limit reached."
    ELSE ""

LimitReached_above(daily, monthly) ==
    IF daily > DAILY_LIMIT THEN "Daily conversion limit reached."
    ELSE IF monthly > MONTHLY_LIMIT THEN "Monthly conversion limit reached."
    ELSE ""

LimitReached(daily, monthly) ==
    IF daily >= DAILY_LIMIT THEN "Daily conversion limit reached."
    ELSE IF monthly >= MONTHLY_LIMIT THEN "Monthly conversion limit reached."
    ELSE ""

check_user_usage_limits_failing_open(w, answers) ==
    IF ~Running(w) THEN w
    ELSE LET row == w.user_usage[w.q.user_id]
             daily == RowDaily(row)
             monthly == RowMonthly(row)
             w1 == Did(w, "quota")
         IN  IF ~answers
             THEN [w1 EXCEPT !.q.seen = [read |-> "error", row |-> NoRow],
                             !.q.daily = 0, !.q.monthly = 0]
             ELSE IF LimitReached(daily, monthly) # ""
             THEN Raise([w1 EXCEPT !.q.seen = [read |-> "ok", row |-> row]],
                        429, LimitReached(daily, monthly))
             ELSE [w1 EXCEPT !.q.seen = [read |-> "ok", row |-> row],
                             !.q.daily = daily, !.q.monthly = monthly]

\* usage.check_user_usage_limits; answers: the select did not raise
check_user_usage_limits(w, answers) ==
    IF ~Running(w) THEN w
    ELSE LET row == w.user_usage[w.q.user_id]
             daily == RowDaily(row)
             monthly == RowMonthly(row)
             w1 == Did(w, "quota")
         IN  IF ~answers
             THEN Raise([w1 EXCEPT !.q.seen = [read |-> "error", row |-> NoRow]],
                        500, "Usage check failed")
             ELSE IF LimitReached(daily, monthly) # ""
             THEN Raise([w1 EXCEPT !.q.seen = [read |-> "ok", row |-> row]],
                        429, LimitReached(daily, monthly))
             ELSE [w1 EXCEPT !.q.seen = [read |-> "ok", row |-> row],
                             !.q.daily = daily, !.q.monthly = monthly]

\* ------------------------------------------------- the upload's filename
\* main.py: /tailor rejects an empty filename; /convert-latex also one that
\* ends in none of .pdf, .md, .docx, .doc.  The 400 detail, or "".
FilenameRejected_accepting_txt(ep, name) ==
    IF ep = "convert_json" THEN ""
    ELSE IF name = "" THEN "Filename cannot be empty."
    ELSE IF ep = "convert_latex"
            /\ Lower(name) \notin {".pdf", ".md", ".docx", ".doc", ".txt"}
    THEN "Only PDF, Markdown (.md), DOCX, and DOC files are supported."
    ELSE ""

FilenameRejected(ep, name) ==
    IF ep = "convert_json" THEN ""
    ELSE IF name = "" THEN "Filename cannot be empty."
    ELSE IF ep = "convert_latex" /\ Lower(name) \notin {".pdf", ".md", ".docx", ".doc"}
    THEN "Only PDF, Markdown (.md), DOCX, and DOC files are supported."
    ELSE ""

check_filename(w, name) ==
    IF ~Running(w) THEN w
    ELSE IF FilenameRejected(w.q.ep, name) # ""
    THEN Raise([w EXCEPT !.q.filename = name], 400, FilenameRejected(w.q.ep, name))
    ELSE [w EXCEPT !.q.filename = name]

\* ---------------------------------------------------------- extraction
Ctypes == {"application/pdf", "application/docx", "application/msword",
           "text/markdown", "text/plain", "image/png"}
Sizes == {0, 1, MAX_FILE_SIZE, MAX_FILE_SIZE + 1}
\* What the parser of the file's type makes of the content: text, no text
\* at all, or an exception.
Parses == {"text", "empty", "fail"}

\* utils.extract_text_from_file, its dispatch on the declared content type
\* and the name's ending: the parser that gets the content.
Parser(name, ctype) ==
    LET filename == IF name = "" THEN "unknown_file" ELSE name
    IN  IF ctype = "application/pdf" \/ Lower(filename) = ".pdf" THEN "pdf"
        ELSE IF ctype \in {"application/docx", "application/msword"}
                \/ Lower(filename) \in {".docx", ".doc"} THEN "word"
        ELSE IF ctype \in {"text/markdown", "text/plain"}
                \/ Lower(filename) \in {".md", ".txt"} THEN "text"
        ELSE "unsupported"

ExtractText_size_inclusive(name, ctype, size, parse) ==
    LET ok(t) == [status |-> 0, detail |-> "", text |-> t]
        err(st, dt) == [status |-> st, detail |-> dt, text |-> "none"]
        parser == Parser(name, ctype)
    IN  IF size >= MAX_FILE_SIZE THEN err(413, "File size exceeds limit")
        ELSE IF size = 0 THEN err(400, "Uploaded file is empty.")
        ELSE IF parser = "pdf"
        THEN IF parse = "fail" THEN err(400, "Could not parse PDF file")
             ELSE ok("text")
        ELSE IF parser = "word"
        THEN IF parse = "fail" THEN err(400, "Could not parse Word file")
             ELSE ok(IF parse = "empty" THEN "empty" ELSE "text")
        ELSE IF parser = "text"
        THEN ok("text")
        ELSE err(415, "Unsupported file type")

ExtractText_type_before_empty(name, ctype, size, parse) ==
    LET ok(t) == [status |-> 0, detail |-> "", text |-> t]
        err(st, dt) == [status |-> st, detail |-> dt, text |-> "none"]
        parser == Parser(name, ctype)
    IN  IF size > MAX_FILE_SIZE THEN err(413, "File size exceeds limit")
        ELSE IF parser = "unsupported" THEN err(415, "Unsupported file type")
        ELSE IF size = 0 THEN err(400, "Uploaded file is empty.")
        ELSE IF parser = "pdf"
        THEN IF parse = "fail" THEN err(400, "Could not parse PDF file")
             ELSE ok("text")
        ELSE IF parser = "word"
        THEN IF parse = "fail" THEN err(400, "Could not parse Word file")
             ELSE ok(IF parse = "empty" THEN "empty" ELSE "text")
        ELSE ok("text")

\* utils.extract_text_from_file: the status it raises (0: none) and the
\* text it returns ("text": a non-empty string, "empty": the empty string).
ExtractText(name, ctype, size, parse) ==
    LET ok(t) == [status |-> 0, detail |-> "", text |-> t]
        err(st, dt) == [status |-> st, detail |-> dt, text |-> "none"]
        parser == Parser(name, ctype)
    IN  IF size > MAX_FILE_SIZE THEN err(413, "File size exceeds limit")
        ELSE IF size = 0 THEN err(400, "Uploaded file is empty.")
        ELSE IF parser = "pdf"
        THEN IF parse = "fail" THEN err(400, "Could not parse PDF file")
             ELSE ok("text")
        ELSE IF parser = "word"
        THEN IF parse = "fail" THEN err(400, "Could not parse Word file")
             ELSE ok(IF parse = "empty" THEN "empty" ELSE "text")
        ELSE IF parser = "text"
        THEN ok("text")
        ELSE err(415, "Unsupported file type")

extract_text_from_file(w, name, ctype, size, parse) ==
    IF ~Running(w) THEN w
    ELSE LET res == ExtractText(name, ctype, size, parse)
             w1 == Did(w, "extract")
         IN  IF res.status # 0 THEN Raise(w1, res.status, res.detail)
             ELSE [w1 EXCEPT !.q.text = res.text]

\* --------------------------------------------------------------- chains
\* What a handler does between having its input text and awaiting
\* chain.ainvoke: /tailor and /convert-json-to-latex answer 503 when their
\* chain handle is None; generate_tailored_resume and generate_latex_resume
\* raise ValueError on empty content; generate_latex_resume on a None chain
\* fails inside its try and raises RuntimeError.
invoke_chain(w) ==
    IF ~Running(w) THEN w
    ELSE LET ep == w.q.ep
             chain == IF ep = "tailor" THEN resume_tailoring_chain
                      ELSE latex_conversion_chain
         IN  IF ep # "convert_latex" /\ ~chain
             THEN Raise(w, 503, "Resume processing service temporarily unavailable.")
             ELSE IF w.q.text = "empty"
             THEN Throw(w, "ValueError", "Resume content cannot be empty")
             ELSE IF ~chain
             THEN Throw(w, "RuntimeError", "LaTeX conversion failed")
             ELSE Await(w, "model")

\* What the model call comes back with.
TailorOutputs == {"raise", "nonstring", "blank", "short_refusal", "short", "long"}
LatexOutputs == {"raise", "nonstring", "latex"}

\* resume_processor.generate_tailored_resume after the call: TRUE when it
\* returns the text, FALSE when it raises RuntimeError.
TailoredAccepted(out) == out \in {"short", "long"}

generate_tailored_resume(w, out) ==
    IF ~Running(w) THEN w
    ELSE LET w1 == Did(w, "model")
         IN  IF TailoredAccepted(out)
             THEN [w1 EXCEPT !.q.body.text = "tailored"]
             ELSE Throw(w1, "RuntimeError", "Processing failed")

\* resume_processor.generate_latex_resume after the call
generate_latex_resume(w, out) ==
    IF ~Running(w) THEN w
    ELSE LET w1 == Did(w, "model")
         IN  IF out = "latex" THEN w1
             ELSE Throw(w1, "RuntimeError", "LaTeX conversion failed")

\* ------------------------------------------------------------- compiler
write_latex_to_file_fixed_name(w, r, written) ==
    IF ~Running(w) THEN w
    ELSE IF ~written
    THEN Raise(w, 500, "Failed to convert LaTeX to PDF")
    ELSE [w EXCEPT !.q.base = 1, !.latex_output = @ \cup {<<1, ".tex">>}]

\* latex_utils.write_latex_to_file.  uuid4 gives every request a base name
\* no other request has: the slot's number stands for it.
write_latex_to_file(w, r, written) ==
    IF ~Running(w) THEN w
    ELSE IF ~written
    THEN Raise(w, 500, "Failed to convert LaTeX to PDF")
    ELSE [w EXCEPT !.q.base = r, !.latex_output = @ \cup {<<r, ".tex">>}]

\* latex_converter.convert_latex_to_pdf, its test of the outcome:
\* os.path.exists(pdf_path) and os.path.getsize(pdf_path) > 0
PdfUsable_by_exit_status(returncode, pdf) == returncode = 0

PdfUsable_and_clean_exit(returncode, pdf) == returncode = 0 /\ pdf = "nonempty"

PdfUsable(returncode, pdf) == pdf = "nonempty"

\* latex_converter.convert_latex_to_pdf from the return of pdflatex.
\* launched: subprocess.run did not raise; pdf: the state of <base>.pdf
\* after the run.
convert_latex_to_pdf(w, launched, returncode, pdf) ==
    IF ~Running(w) THEN w
    ELSE LET w1 == Did(w, "compiler")
             made == { <<w.q.base, e>> :
                         e \in {".aux", ".log", ".out"}
                               \cup (IF pdf = "missing" THEN {} ELSE {".pdf"}) }
             w2 == [w1 EXCEPT !.latex_output = @ \cup made,
                              !.q.returncode = returncode, !.q.pdf = pdf]
         IN  IF ~launched
             THEN Raise(w1, 500, "Failed to convert LaTeX to PDF")
             ELSE IF ~PdfUsable(returncode, pdf)
             THEN Raise([w2 EXCEPT !.q.conv = "failed"], 500,
                        "PDF generation failed - output file not found or empty.")
             ELSE IF <<w.q.base, ".pdf">> \notin w2.latex_output
             THEN Raise([w2 EXCEPT !.q.conv = "failed"], 500,
                        "Failed to convert LaTeX to PDF")
             ELSE [w2 EXCEPT !.q.conv = "ok"]

\* ------------------------------------------------------ storage, record
upload_pdf_to_bucket_continuing(w, uploaded) ==
    IF ~Running(w) THEN w
    ELSE LET pdf_file == <<w.q.base, ".pdf">>
             w1 == IF w.q.ep = "convert_json"
                   THEN [w EXCEPT !.latex_output = @ \cup {pdf_file}]
                   ELSE w
             w2 == Did(w1, "upload")
         IN  IF pdf_file \notin w1.latex_output \/ ~uploaded
             THEN w2
             ELSE [w2 EXCEPT !.bucket = @ \cup {w.q.base},
                             !.q.public_url = w.q.base]

\* supabase_utils.upload_pdf_to_bucket, after the fallback of
\* /convert-json-to-latex that writes the PDF when it is not on disk.
upload_pdf_to_bucket(w, uploaded) ==
    IF ~Running(w) THEN w
    ELSE LET pdf_file == <<w.q.base, ".pdf">>
             w1 == IF w.q.ep = "convert_json"
                   THEN [w EXCEPT !.latex_output = @ \cup {pdf_file}]
                   ELSE w
             w2 == Did(w1, "upload")
         IN  IF pdf_file \notin w1.latex_output \/ ~uploaded
             THEN Throw(w2, "Exception", "upload failed")
             ELSE [w2 EXCEPT !.bucket = @ \cup {w.q.base},
                             !.q.public_url = w.q.base]

insert_resume_record_swallowing(w, inserted) ==
    IF ~Running(w) \/ ~inserted THEN w
    ELSE [Did(w, "insert") EXCEPT !.resume_table =
              Append(@, [resume_link |-> w.q.public_url, user_id |-> w.q.user_id])]

insert_resume_record_replacing(w, inserted) ==
    IF ~Running(w) THEN w
    ELSE LET w1 == Did(w, "insert")
             row == [resume_link |-> w.q.public_url, user_id |-> w.q.user_id]
         IN  IF ~inserted THEN Throw(w1, "Exception", "insert failed")
             ELSE [w1 EXCEPT !.resume_table =
                       IF @ = << >> THEN << row >> ELSE [@ EXCEPT ![1] = row]]

\* supabase_utils.insert_resume_record
insert_resume_record(w, inserted) ==
    IF ~Running(w) THEN w
    ELSE LET w1 == Did(w, "insert")
         IN  IF ~inserted THEN Throw(w1, "Exception", "insert failed")
             ELSE [w1 EXCEPT !.resume_table =
                       Append(@, [resume_link |-> w.q.public_url,
                                  user_id |-> w.q.user_id])]

\* --------------------------------------------------------- notification
\* email_service.send_resume_conversion_notification: "true", "false", or
\* "raised" when an exception leaves it.
NotificationResult_unguarded(sec, t, rendered, accepted) ==
    IF ~sec \/ t.kind # "valid" \/ ~t.email THEN "false"
    ELSE IF ~rendered \/ ~accepted THEN "raised"
    ELSE "true"

NotificationResult(sec, t, rendered, accepted) ==
    IF ~sec \/ t.kind # "valid" \/ ~t.email THEN "false"
    ELSE IF ~rendered \/ ~accepted THEN "false"
    ELSE "true"

\* The notification block of the two PDF handlers: the call in its own
\* try/except, which only logs.
send_resume_conversion_notification(w, rendered, accepted) ==
    IF ~Running(w) THEN w
    ELSE LET res == NotificationResult(email_secret, w.q.token, rendered, accepted)
             w1 == Did(w, "email")
         IN  [w1 EXCEPT !.q.email_sent = res,
                        !.outbox = IF res = "true" THEN @ \cup {w.q.public_url} ELSE @]

\* -------------------------------------------------------------- cleanup
\* Sets of files os.remove fails on.
RemovalFailures == { {}, {".pdf", ".tex"} }

\* The cleanup loop of the two PDF handlers: remove <base><ext> for the
\* five extensions, logging a failure.
cleanup_pdf_only(w, stuck) ==
    IF ~Running(w) THEN w
    ELSE [Did(w, "cleanup") EXCEPT
            !.latex_output = @ \ { <<w.q.base, e>> : e \in {".pdf"} \ stuck },
            !.q.removal = IF stuck = {} THEN "ok" ELSE "failed"]

cleanup(w, stuck) ==
    IF ~Running(w) THEN w
    ELSE [Did(w, "cleanup") EXCEPT
            !.latex_output = @ \ { <<w.q.base, e>> : e \in Exts \ stuck },
            !.q.removal = IF stuck = {} THEN "ok" ELSE "failed"]

\* ------------------------------------------------------------ increment
\* update(...).eq("user_id", user_id): the rows that match are rewritten
UpdateUsage_daily_only(table, user_id, new_daily, new_monthly) ==
    IF table[user_id].present
    THEN [table EXCEPT ![user_id] = Row(new_daily, @.monthly)]
    ELSE table

UpdateUsage_monthly_only(table, user_id, new_daily, new_monthly) ==
    IF table[user_id].present
    THEN [table EXCEPT ![user_id] = Row(@.daily, new_monthly)]
    ELSE table

UpdateUsage(table, user_id, new_daily, new_monthly) ==
    IF table[user_id].present
    THEN [table EXCEPT ![user_id] = Row(new_daily, new_monthly)]
    ELSE table

increment_user_usage_rereading(w, updated) ==
    IF ~Running(w) THEN w
    ELSE LET now == w.user_usage[w.q.user_id]
             table == IF updated
                      THEN UpdateUsage(w.user_usage, w.q.user_id,
                                       now.daily + 1, now.monthly + 1)
                      ELSE w.user_usage
         IN  [Did(w, "incr") EXCEPT
                !.user_usage = table,
                !.q.incr = IF updated THEN "ok" ELSE "failed",
                !.q.after = table[w.q.user_id]]

increment_user_usage_propagating(w, updated) ==
    IF ~Running(w) THEN w
    ELSE IF ~updated
    THEN Throw([Did(w, "incr") EXCEPT !.q.incr = "failed"], "Exception",
               "Failed to increment usage counters")
    ELSE LET table == UpdateUsage(w.user_usage, w.q.user_id,
                                  w.q.daily + 1, w.q.monthly + 1)
         IN  [Did(w, "incr") EXCEPT
                !.user_usage = table, !.q.incr = "ok",
                !.q.after = table[w.q.user_id]]

\* usage.increment_user_usage; updated: the update did not raise
increment_user_usage(w, updated) ==
    IF ~Running(w) THEN w
    ELSE LET table == IF updated
                      THEN UpdateUsage(w.user_usage, w.q.user_id,
                                       w.q.daily + 1, w.q.monthly + 1)
                      ELSE w.user_usage
         IN  [Did(w, "incr") EXCEPT
                !.user_usage = table,
                !.q.incr = IF updated THEN "ok" ELSE "failed",
                !.q.after = table[w.q.user_id]]

\* The handler returns its response.
respond(w) ==
    IF ~Running(w) THEN w
    ELSE [w EXCEPT !.q.pc = "done", !.q.status = 200,
                   !.q.responses = @ + 1,
                   !.q.body.resume_link = w.q.public_url,
                   !.q.body.pdf_filename =
                       IF w.q.ep = "convert_json" THEN w.q.base ELSE 0]


\* ============================================================= actions
\* The outcomes to draw for a call: both while the request is unanswered,
\* one (the call is never made) once it is answered.
Outcomes(w) == IF Running(w) THEN BOOLEAN ELSE {TRUE}

\* A client sends a request.  FastAPI resolves Depends(HTTPBearer()) first:
\* without an Authorization header the handler body never runs and the
\* framework answers (401 or 403, by its version).  Otherwise the handler
\* runs up to its first await: extract_text_from_file, or chain.ainvoke in
\* /convert-json-to-latex.
request_arrives(r) ==
    /\ req[r].pc = "idle"
    /\ IF r = 1 THEN TRUE ELSE req[r - 1].pc # "idle"
    /\ \E e \in Endpoints, t \in Tokens :
          LET others == { o \in Reqs \ {r} :
                            InFlight(o) /\ t.kind = "valid" /\ req[o].token.sub = t.sub }
              q0 == [Idle EXCEPT !.ep = e, !.token = t, !.pc = "auth",
                                 !.text = IF e = "convert_json" THEN "text" ELSE "none",
                                 !.alone = (others = {})]
              w0 == [World(r) EXCEPT !.q = q0]
              End(w) == /\ req' = [o \in Reqs |->
                                     IF o = r THEN w.q
                                     ELSE IF o \in others
                                     THEN [req[o] EXCEPT !.alone = FALSE]
                                     ELSE req[o]]
                        /\ UNCHANGED << config, user_usage, resume_table, bucket,
                                        latex_output, outbox, call >>
          IN  IF t.kind = "none"
              THEN \E reject \in {401, 403} : End(Raise(w0, reject, "Not authenticated"))
              ELSE LET w1 == get_user_id_from_jwt(w0)
                   IN  \E answers \in Outcomes(w1) :
                         LET w2 == check_user_usage_limits(w1, answers)
                         IN  IF e = "convert_json" THEN End(invoke_chain(w2))
                             ELSE \E name \in IF Running(w2) THEN Filenames ELSE {""} :
                                    End(Await(check_filename(w2, name), "extract"))

\* The upload has been read: the handler extracts the text and goes on to
\* the call of its chain.  The upload's name is not looked at again; what
\* the extractor never looks at is not drawn.
extract_returns(r) ==
    /\ req[r].pc = "extract"
    /\ \E size \in Sizes :
       \E ctype \in IF 0 < size /\ size <= MAX_FILE_SIZE THEN Ctypes
                    ELSE {"application/pdf"} :
       \E parse \in IF Parser(req[r].filename, ctype) \in {"pdf", "word"}
                       /\ 0 < size /\ size <= MAX_FILE_SIZE
                    THEN Parses ELSE {"text"} :
          LET w0 == [World(r) EXCEPT !.q.filename = ""]
          IN  Commit(r, invoke_chain(
                  extract_text_from_file(w0, req[r].filename, ctype, size, parse)))

\* The chain has answered.  /tailor increments the usage and responds; the
\* PDF handlers enter convert_latex_to_pdf, which writes the .tex file and
\* awaits pdflatex in a worker thread.
model_returns(r) ==
    /\ req[r].pc = "model"
    /\ IF req[r].ep = "tailor"
       THEN \E out \in TailorOutputs :
              LET w1 == generate_tailored_resume(World(r), out)
              IN  \E updated \in Outcomes(w1) :
                    Commit(r, respond(increment_user_usage(w1, updated)))
       ELSE \E out \in LatexOutputs :
              LET w1 == generate_latex_resume(World(r), out)
              IN  \E written \in Outcomes(w1) :
                    Commit(r, Await(write_latex_to_file(w1, r, written), "pdflatex"))

\* What a run of pdflatex may leave: whether it ran at all, its exit
\* status, and the state of <base>.pdf.
PdflatexRuns ==
    { [launched |-> FALSE, returncode |-> 0, pdf |-> "missing"] }
    \cup
    { [launched |-> TRUE, returncode |-> c, pdf |-> p] :
        c \in {0, 1}, p \in {"missing", "empty", "nonempty"} }

\* pdflatex has returned: the rest of convert_latex_to_pdf and of the PDF
\* handler, which holds no await that suspends it.
pdflatex_returns(r) ==
    /\ req[r].pc = "pdflatex"
    /\ \E run \in PdflatexRuns :
        LET w1 == convert_latex_to_pdf(World(r), run.launched, run.returncode, run.pdf)
        IN  \E uploaded \in Outcomes(w1) :
        LET w2 == upload_pdf_to_bucket(w1, uploaded)
        IN  \E inserted \in Outcomes(w2) :
        LET w3 == insert_resume_record(w2, inserted)
        IN  \E delivery \in IF Running(w3) THEN {"sent", "template", "provider"}
                            ELSE {"sent"} :
        LET w4 == send_resume_conversion_notification(
                      w3, delivery # "template", delivery # "provider")
        IN  \E stuck \in IF Running(w4) THEN RemovalFailures ELSE {{}},
               updated \in Outcomes(w4) :
              Commit(r, respond(increment_user_usage(cleanup(w4, stuck), updated)))

Next ==
    \E r \in Reqs :
        \/ request_arrives(r)
        \/ extract_returns(r)
        \/ model_returns(r)
        \/ pdflatex_returns(r)

Spec == Init /\ [][Next]_vars

\* ============================================================== claims
Has(r, step) == \E i \in DOMAIN req[r].steps : req[r].steps[i] = step
Answered(r) == req[r].pc = "done"
\* The counters the quota gate of request r was given by the store.
SeenDaily(r) == IF req[r].seen.row.present THEN req[r].seen.row.daily ELSE 0
SeenMonthly(r) == IF req[r].seen.row.present THEN req[r].seen.row.monthly ELSE 0
\* Request r left nothing behind: no file, no object, no row, no email, no
\* counter write.
NoEffects(r) ==
    /\ req[r].base = 0
    /\ req[r].public_url = 0
    /\ req[r].email_sent = "none"
    /\ req[r].incr = "none"
    /\ \A e \in Exts : <<r, e>> \notin latex_output
    /\ r \notin bucket
    /\ r \notin outbox
    /\ \A i \in DOMAIN resume_table : resume_table[i].resume_link # r

\* C1: on the two PDF endpoints a request uploads a PDF or inserts an audit
\* record only if its compilation returned success with a non-empty PDF on
\* disk under its own base name; a request whose compilation failed does
\* neither, and every object of the bucket and every row of resume_table
\* comes from such a request.
C1_UploadAndInsertOnlyAfterUsablePdf ==
    /\ \A r \in Reqs :
         /\ (Has(r, "upload") \/ Has(r, "insert")) =>
               /\ req[r].ep \in PdfEndpoints
               /\ req[r].conv = "ok"
               /\ req[r].pdf = "nonempty"
         /\ req[r].conv = "failed" => ~Has(r, "upload") /\ ~Has(r, "insert")
    /\ \A b \in bucket : req[b].pdf = "nonempty"
    /\ \A i \in DOMAIN resume_table : req[resume_table[i].resume_link].pdf = "nonempty"

C1_Witness ==
    \E r1, r2 \in Reqs :
        /\ req[r1].conv = "failed" /\ Answered(r1)
        /\ Has(r2, "upload") /\ Has(r2, "insert") /\ r2 \in bucket

\* C2: the usage increment is attempted only after, in the same request,
\* compilation, upload and record insertion succeeded (on /tailor: after
\* the model call succeeded), and it is the last step; a request answered
\* with an error never attempted it, so it wrote no counter.
C2_IncrementOnlyAfterFullSuccess ==
    \A r \in Reqs :
        /\ Has(r, "incr") =>
              /\ req[r].steps[Len(req[r].steps)] = "incr"
              /\ Has(r, "model")
              /\ req[r].ep = "tailor" => req[r].body.text = "tailored"
              /\ req[r].ep \in PdfEndpoints =>
                    /\ req[r].conv = "ok"
                    /\ Has(r, "upload") /\ req[r].public_url \in bucket
                    /\ Has(r, "insert")
                    /\ \E i \in DOMAIN resume_table :
                          resume_table[i] = [resume_link |-> req[r].public_url,
                                             user_id |-> req[r].user_id]
        /\ (Answered(r) /\ req[r].status # 200) =>
              ~Has(r, "incr") /\ req[r].incr = "none"

C2_Witness ==
    \E r1, r2 \in Reqs :
        /\ Answered(r1) /\ req[r1].status = 500 /\ Has(r1, "upload")
        /\ Answered(r2) /\ req[r2].status = 200 /\ req[r2].incr = "ok"
        /\ req[r2].ep \in PdfEndpoints

\* C3: for the pair (daily, monthly) the store gave the gate (absent row:
\* (0, 0)): daily >= 3 is answered 429 "daily limit", also when monthly >=
\* 30; daily < 3 and monthly >= 30 is answered 429 "monthly limit";
\* otherwise the gate returns (daily, monthly) and the request is let on.
C3_QuotaGateDecision ==
    \A r \in Reqs :
        req[r].seen.read = "ok" =>
            /\ SeenDaily(r) >= 3 =>
                  /\ Answered(r) /\ req[r].status = 429
                  /\ req[r].detail = "Daily conversion limit reached."
            /\ (SeenDaily(r) < 3 /\ SeenMonthly(r) >= 30) =>
                  /\ Answered(r) /\ req[r].status = 429
                  /\ req[r].detail = "Monthly conversion limit reached."
            /\ (SeenDaily(r) < 3 /\ SeenMonthly(r) < 30) =>
                  /\ req[r].daily = SeenDaily(r)
                  /\ req[r].monthly = SeenMonthly(r)
                  /\ req[r].status # 429
            /\ ~req[r].seen.row.present =>
                  /\ req[r].daily = 0 /\ req[r].monthly = 0
                  /\ req[r].status # 429

C3_Witness ==
    \E r1, r2 \in Reqs :
        /\ req[r1].seen.row = Row(3, 30)
        /\ req[r1].detail = "Daily conversion limit reached."
        /\ req[r2].seen.row = Row(0, 30)
        /\ req[r2].detail = "Monthly conversion limit reached."

\* C4: a request whose user's stored daily counter is 3 or more, or monthly
\* counter 30 or more, when the gate reads it is answered 429 having done
\* nothing but authenticate and read the quota: no extraction, model call,
\* compiler call, upload, insert, email or counter write.
C4_OverQuotaRejectedBeforeAnyWork ==
    \A r \in Reqs :
        (req[r].seen.read = "ok" /\ (SeenDaily(r) >= 3 \/ SeenMonthly(r) >= 30)) =>
            /\ Answered(r)
            /\ req[r].status = 429
            /\ req[r].steps = << "auth", "quota" >>
            /\ NoEffects(r)

C4_Witness ==
    \E r1, r2 \in Reqs :
        /\ req[r1].ep = "convert_latex" /\ req[r1].status = 429
        /\ req[r1].seen.row.daily = 3
        /\ req[r2].ep = "tailor" /\ req[r2].status = 429
        /\ req[r2].seen.row.monthly = 30

Unauthenticated(r) == req[r].token.kind \in {"none", "bad", "nosub"}

\* C5 as stated: a request with no Authorization header, or with a token
\* that fails verification or has no 'sub' claim, is answered 401 and does
\* no quota read, model call, compiler call, storage or table write.
C5_UnauthenticatedAnswered401 ==
    \A r \in Reqs :
        (req[r].pc # "idle" /\ Unauthenticated(r)) =>
            /\ Answered(r)
            /\ req[r].status = 401
            /\ req[r].seen.read = "unread"
            /\ NoEffects(r)

\* C5, amended: such a request is always turned away before any quota
\* read, model call, compiler call, storage or table write; its status is
\* 401 for a token that fails verification or has no 'sub' claim when the
\* verification secret is configured, 500 when the secret is not set, and
\* the framework's own (401 or 403) when the header is missing.
C5_UnauthenticatedTurnedAway ==
    \A r \in Reqs :
        (req[r].pc # "idle" /\ Unauthenticated(r)) =>
            /\ Answered(r)
            /\ req[r].status =
                  IF req[r].token.kind = "none" THEN req[r].status
                  ELSE IF secret THEN 401 ELSE 500
            /\ req[r].status \in {401, 403, 500}
            /\ req[r].seen.read = "unread"
            /\ ~Has(r, "quota") /\ ~Has(r, "extract") /\ ~Has(r, "model")
            /\ ~Has(r, "compiler")
            /\ NoEffects(r)

C5_Witness ==
    \E r1, r2 \in Reqs :
        /\ secret
        /\ req[r1].token.kind = "bad" /\ req[r1].status = 401
        /\ req[r2].token.kind = "nosub" /\ req[r2].status = 401

\* C6: a request that succeeds for a user whose row held (d, m), d < 3 and
\* m < 30, with no other request of that user in flight and the update
\* not failing, leaves the row at exactly (d + 1, m + 1).
C6_SuccessIncrementsBothByOne ==
    \A r \in Reqs :
        ( /\ Answered(r) /\ req[r].status = 200
          /\ req[r].alone /\ req[r].incr = "ok"
          /\ req[r].seen.row.present
          /\ req[r].seen.row.daily < 3 /\ req[r].seen.row.monthly < 30 ) =>
            /\ req[r].after.present
            /\ req[r].after.daily = req[r].seen.row.daily + 1
            /\ req[r].after.monthly = req[r].seen.row.monthly + 1

C6_Witness ==
    \E r \in Reqs :
        /\ Answered(r) /\ req[r].status = 200 /\ req[r].alone /\ req[r].incr = "ok"
        /\ req[r].seen.row = Row(2, 29)
        /\ req[r].after = Row(3, 30)
        /\ user_usage[req[r].user_id] = Row(3, 30)

\* C7 as stated: for a user with no row in user_usage, one successful
\* conversion leaves a stored row with daily_conversions = 1 and
\* monthly_conversions = 1.
C7_FirstSuccessCreatesRow ==
    \A r \in Reqs :
        ( /\ Answered(r) /\ req[r].status = 200
          /\ req[r].alone /\ req[r].incr = "ok"
          /\ req[r].seen.read = "ok" /\ ~req[r].seen.row.present ) =>
            req[r].after = Row(1, 1)

\* C8: a failure of the usage update never changes the response: a request
\* that reached the increment is answered 200 with its body (the public
\* URL of its PDF, or the tailored text), whether the update failed or not.
C8_IncrementFailureNotSurfaced ==
    \A r \in Reqs :
        Has(r, "incr") =>
            /\ req[r].incr \in {"ok", "failed"}
            /\ Answered(r)
            /\ req[r].status = 200
            /\ req[r].ep \in PdfEndpoints =>
                  /\ req[r].body.resume_link = req[r].public_url
                  /\ req[r].public_url # 0
            /\ req[r].ep = "tailor" => req[r].body.text = "tailored"

C8_Witness ==
    \E r1, r2 \in Reqs :
        /\ req[r1].incr = "failed" /\ req[r1].status = 200
        /\ req[r1].ep \in PdfEndpoints /\ req[r1].body.resume_link = r1
        /\ req[r2].incr = "failed" /\ req[r2].status = 200
        /\ req[r2].ep = "tailor"

\* C9: send_resume_conversion_notification never raises: it returns true
\* or false, false whenever the secret is unset, the token has no email
\* claim, or the provider did not accept the mail; and a PDF request that
\* reached the notification is answered 200 with its public URL whatever
\* the notification returned.
C9_NotificationNeverSurfaces ==
    \A r \in Reqs :
        Has(r, "email") =>
            /\ req[r].email_sent \in {"true", "false"}
            /\ (~email_secret \/ ~req[r].token.email) => req[r].email_sent = "false"
            /\ req[r].email_sent = "true" <=> req[r].public_url \in outbox
            /\ Answered(r)
            /\ req[r].status = 200
            /\ req[r].body.resume_link = req[r].public_url

C9_Witness ==
    \E r1, r2 \in Reqs :
        /\ req[r1].email_sent = "true" /\ req[r1].status = 200
        /\ req[r2].email_sent = "false" /\ req[r2].status = 200
        /\ req[r2].token.email /\ email_secret
        /\ req[r1].ep = req[r2].ep

\* C10: convert_latex_to_pdf returns success, with the file's name, for
\* every run of the compiler that leaves a non-empty PDF, whatever the exit
\* status; the handler goes on to the upload.
C10_NonEmptyPdfIsSuccess ==
    \A r \in Reqs :
        (Has(r, "compiler") /\ req[r].pdf = "nonempty") =>
            /\ req[r].returncode \in {0, 1}
            /\ req[r].conv = "ok"
            /\ req[r].base = r
            /\ Has(r, "upload")

C10_Witness ==
    \E r1, r2 \in Reqs :
        /\ req[r1].returncode = 1 /\ req[r1].pdf = "nonempty" /\ req[r1].conv = "ok"
        /\ req[r2].returncode = 0 /\ req[r2].pdf = "nonempty" /\ req[r2].conv = "ok"

\* ======================================================= helpers on their own
\* The specifications below exercise one helper at a time, the way a unit
\* test does: Init draws the arguments, one action applies the helper and
\* stores what it returned or raised.  The service's stores stay as they
\* are at start-up.
service == << config, user_usage, resume_table, bucket, latex_output, outbox, req >>

AtStartup ==
    /\ secret = TRUE
    /\ email_secret = TRUE
    /\ resume_tailoring_chain = TRUE
    /\ latex_conversion_chain = TRUE
    /\ user_usage = Table(NoRow, NoRow)
    /\ resume_table = << >>
    /\ bucket = {}
    /\ latex_output = {}
    /\ outbox = {}
    /\ req = [r \in Reqs |-> Idle]

Max(a, b) == IF a >= b THEN a ELSE b
Min(a, b) == IF a <= b THEN a ELSE b

\* ------------------------------------------- pdflatex's diagnostic stream
MaxLines == 22        \* lines of a diagnostic stream

\* A text is a sequence of characters; a character is a number, NL the
\* line feed.
NL == 0
NUM_LINES == 20
\* 'No stderr output.'
NoStderrOutput == << -1 >>

\* str.splitlines(): the lines of a text, without their line feeds; a line
\* feed that ends the text opens no further line.
RECURSIVE splitlines(_)
splitlines(text) ==
    IF text = << >> THEN << >>
    ELSE LET feeds == { i \in 1..Len(text) : text[i] = NL }
         IN  IF feeds = {} THEN << text >>
             ELSE LET k == CHOOSE i \in feeds : \A j \in feeds : i <= j
                  IN  << SubSeq(text, 1, k - 1) >>
                      \o splitlines(SubSeq(text, k + 1, Len(text)))

\* '\n'.join(lines)
RECURSIVE join(_)
join(lines) ==
    IF lines = << >> THEN << >>
    ELSE IF Len(lines) = 1 THEN lines[1]
    ELSE lines[1] \o << NL >> \o join(Tail(lines))

format_pdflatex_error_first_lines(stderr, num_lines) ==
    LET lines == splitlines(stderr)
    IN  IF lines # << >>
        THEN join(SubSeq(lines, 1, Min(num_lines, Len(lines))))
        ELSE NoStderrOutput

\* latex_utils.format_pdflatex_error: lines[-num_lines:] joined, or the
\* placeholder when there is no line
format_pdflatex_error(stderr, num_lines) ==
    LET lines == splitlines(stderr)
    IN  IF lines # << >>
        THEN join(SubSeq(lines, Max(1, Len(lines) - num_lines + 1), Len(lines)))
        ELSE NoStderrOutput

\* latex_converter.convert_latex_to_pdf once pdflatex has returned: status 0
\* and no diagnostic when it returns the PDF, else the HTTPException.
ConvertResult(returncode, pdf, stderr) ==
    IF PdfUsable(returncode, pdf)
    THEN [status |-> 0, detail |-> "", diag |-> << >>]
    ELSE [status |-> 500,
          detail |-> "PDF generation failed - output file not found or empty. pdflatex stderr (last 20 lines):",
          diag |-> format_pdflatex_error(stderr, NUM_LINES)]

\* The text of line i of a stream whose line number blank is empty.
LineText(i, blank) == IF i = blank THEN << >> ELSE << i >>
\* A stream of n lines, the last one ended by a line feed or not.
RECURSIVE Stderr(_, _, _)
Stderr(n, blank, term) ==
    IF n = 0 THEN << >>
    ELSE Stderr(n - 1, blank, TRUE) \o LineText(n, blank)
         \o (IF term THEN << NL >> ELSE << >>)

InitStderr ==
    /\ AtStartup
    /\ \E n \in 0..MaxLines, blank \in {0, 1}, term \in BOOLEAN,
          returncode \in {0, 1}, pdf \in {"missing", "empty", "nonempty"} :
          /\ blank = 1 => n >= 2
          /\ call = [fn |-> "convert_latex_to_pdf", n |-> n, blank |-> blank,
                     returncode |-> returncode, pdf |-> pdf,
                     stderr |-> Stderr(n, blank, term), done |-> FALSE,
                     result |-> [status |-> -1, detail |-> "", diag |-> << >>]]

\* pdflatex has returned with that stream on stderr
pdflatex_exits ==
    /\ call.fn = "convert_latex_to_pdf"
    /\ ~call.done
    /\ call' = [call EXCEPT !.done = TRUE,
                    !.result = ConvertResult(call.returncode, call.pdf, call.stderr)]
    /\ UNCHANGED service

NextStderr == pdflatex_exits

SpecStderr == InitStderr /\ [][NextStderr]_vars

\* Lines a..b of the stream, a line feed between two of them.
RECURSIVE LinesFromTo(_, _, _)
LinesFromTo(a, b, blank) ==
    IF a > b THEN << >>
    ELSE IF a = b THEN LineText(b, blank)
    ELSE LinesFromTo(a, b - 1, blank) \o << NL >> \o LineText(b, blank)

\* C11: whenever the PDF is missing or empty after the compiler ran,
\* convert_latex_to_pdf fails with 500, also when the exit status is 0, and
\* the diagnostic in the error is exactly the last min(20, n) lines of the
\* n-line stream in their order (the placeholder when n = 0).
C11_FailureCarriesLastLines ==
    (call.done /\ call.pdf \in {"missing", "empty"}) =>
        /\ call.result.status = 500
        /\ call.result.diag =
              IF call.n = 0 THEN NoStderrOutput
              ELSE LinesFromTo(call.n - Min(20, call.n) + 1, call.n, call.blank)

C11_Witness ==
    /\ call.done /\ call.pdf = "empty" /\ call.returncode = 0
    /\ call.n = 22 /\ call.result.status = 500
    /\ Len(splitlines(call.result.diag)) = 20
    /\ call.result.diag[1] = 3

\* ------------------------------------------------ the working directory
\* The files of request r that are in the working directory.
FilesOf(r) == { e \in Exts : <<r, e>> \in latex_output }

\* C12 as stated: once a request to a PDF endpoint has been answered, with
\* success or with a failure at compilation, upload or insert, and no file
\* removal having failed, neither its .tex file nor its PDF remains in the
\* working directory.
C12_ArtifactsDeletedWhateverOutcome ==
    \A r \in Reqs :
        ( /\ Answered(r) /\ req[r].ep \in PdfEndpoints
          /\ req[r].removal # "failed" ) =>
            /\ <<r, ".tex">> \notin latex_output
            /\ <<r, ".pdf">> \notin latex_output

\* C13: after a PDF endpoint has answered 200 with no file removal having
\* failed, the working directory holds none of <base>.tex, .aux, .log,
\* .out, .pdf for the base name of that request's PDF.
C13_NoSideFilesAfterSuccess ==
    \A r \in Reqs :
        ( /\ Answered(r) /\ req[r].status = 200 /\ req[r].ep \in PdfEndpoints
          /\ req[r].removal # "failed" ) =>
            /\ req[r].base = r
            /\ req[r].removal = "ok"
            /\ FilesOf(r) = {}

C13_Witness ==
    \E r1, r2 \in Reqs :
        /\ Answered(r1) /\ req[r1].status = 200 /\ req[r1].ep = "convert_json"
        /\ req[r1].removal = "ok" /\ Has(r1, "compiler") /\ FilesOf(r1) = {}
        /\ Answered(r2) /\ req[r2].status = 200 /\ req[r2].ep = "convert_latex"
        /\ req[r2].removal = "failed" /\ FilesOf(r2) = {".pdf", ".tex"}

\* ------------------------------------------------------- audit records
\* The rows of resume_table that carry the public URL of request r.
RowsOf(r) == { i \in DOMAIN resume_table : resume_table[i].resume_link = r }

\* C14: audit records are created once per successful conversion and only
\* appended: a PDF request answered 200 has exactly one row in resume_table,
\* with its public URL and user id; a request answered with an error has no
\* row; /tailor inserts no row and uploads nothing; and every step leaves
\* the rows already in the table as they are, in place.
C14_AuditRowsOncePerSuccess ==
    /\ [](\A r \in Reqs :
            /\ (Answered(r) /\ req[r].status = 200 /\ req[r].ep \in PdfEndpoints) =>
                  /\ Cardinality(RowsOf(r)) = 1
                  /\ req[r].public_url = r
                  /\ \A i \in RowsOf(r) : resume_table[i].user_id = req[r].user_id
            /\ (Answered(r) /\ req[r].status # 200) => RowsOf(r) = {}
            /\ req[r].ep = "tailor" =>
                  /\ RowsOf(r) = {} /\ r \notin bucket
                  /\ ~Has(r, "insert") /\ ~Has(r, "upload"))
    /\ [][ /\ Len(resume_table') >= Len(resume_table)
           /\ SubSeq(resume_table', 1, Len(resume_table)) = resume_table ]_vars

C14_Witness ==
    \E r1, r2 \in Reqs :
        /\ Answered(r1) /\ req[r1].status = 200 /\ req[r1].ep \in PdfEndpoints
        /\ Answered(r2) /\ req[r2].status = 200 /\ req[r2].ep \in PdfEndpoints
        /\ r1 < r2 /\ req[r1].user_id = req[r2].user_id
        /\ Len(resume_table) = 2
        /\ resume_table[1].resume_link = r2 /\ resume_table[2].resume_link = r1

\* ------------------------------------------------------ order of steps
\* The steps of an endpoint in the order the claim gives them (cleanup, of
\* which it says nothing, where the handlers have it).
StepOrder(ep) ==
    IF ep = "tailor" THEN << "auth", "quota", "extract", "model", "incr" >>
    ELSE IF ep = "convert_latex"
    THEN << "auth", "quota", "extract", "model", "compiler", "upload", "insert",
            "email", "cleanup", "incr" >>
    ELSE << "auth", "quota", "model", "compiler", "upload", "insert",
            "email", "cleanup", "incr" >>

IsPrefix(s, t) == Len(s) <= Len(t) /\ s = SubSeq(t, 1, Len(s))

\* C15: in every execution of the three endpoints the steps happen in the
\* order token, user id, quota, extraction / generation / compilation,
\* upload, record, notify, increment, respond; a step is taken only when
\* the one before it succeeded, except that the steps after the
\* notification are taken whatever it returned; 200 is answered only after
\* all of them.
C15_StepsInOrder ==
    \A r \in Reqs :
        req[r].pc # "idle" =>
            /\ IsPrefix(req[r].steps, StepOrder(req[r].ep))
            /\ Has(r, "quota") => req[r].token.kind = "valid" /\ req[r].user_id = req[r].token.sub
            /\ (Has(r, "extract") \/ Has(r, "model")) =>
                  req[r].seen.read = "ok" /\ req[r].daily >= 0 /\ req[r].status # 429
            /\ Has(r, "model") => req[r].text = "text"
            /\ Has(r, "compiler") => req[r].base = r
            /\ Has(r, "upload") => req[r].conv = "ok"
            /\ Has(r, "insert") => req[r].public_url = r /\ r \in bucket
            /\ Has(r, "email") => RowsOf(r) # {}
            /\ Has(r, "incr") =>
                  IF req[r].ep = "tailor" THEN req[r].body.text = "tailored"
                  ELSE Has(r, "email") /\ req[r].email_sent \in {"true", "false"}
            /\ (Answered(r) /\ req[r].status = 200) =>
                  req[r].steps = StepOrder(req[r].ep)
            /\ (Answered(r) /\ req[r].status # 200) => ~Has(r, "incr")

C15_Witness ==
    \E r1, r2 \in Reqs :
        /\ Answered(r1) /\ req[r1].status = 200 /\ req[r1].ep = "convert_latex"
        /\ req[r1].email_sent = "false" /\ req[r1].steps = StepOrder("convert_latex")
        /\ Answered(r2) /\ req[r2].status = 500 /\ req[r2].ep = "convert_json"
        /\ req[r2].steps = << "auth", "quota", "model", "compiler", "upload" >>

\* --------------------------------------------------- chains not set up
\* main.py sets both chain handles to None before it tries to set them up:
\* the service with either handle still empty when requests come in.
InitChains ==
    /\ secret = TRUE
    /\ email_secret = TRUE
    /\ resume_tailoring_chain \in BOOLEAN
    /\ latex_conversion_chain \in BOOLEAN
    /\ user_usage = Table(NoRow, Row(0, 0))
    /\ resume_table = << >>
    /\ bucket = {}
    /\ latex_output = {}
    /\ outbox = {}
    /\ req = [r \in Reqs |-> Idle]
    /\ call = NoCall

SpecChains == InitChains /\ [][Next]_vars

\* The chain handle the endpoint of request r needs.
ChainOf(r) ==
    IF req[r].ep = "tailor" THEN resume_tailoring_chain ELSE latex_conversion_chain

InitExtract ==
    /\ AtStartup
    /\ \E name \in Filenames, ctype \in Ctypes, size \in Sizes :
       \E parse \in IF Parser(name, ctype) \in {"pdf", "word"} THEN Parses
                    ELSE {"text"} :
          call = [fn |-> "extract_text_from_file", name |-> name, ctype |-> ctype,
                  size |-> size, parse |-> parse, done |-> FALSE,
                  result |-> [status |-> -1, detail |-> "", text |-> "none"]]

\* the upload has been read
upload_read ==
    /\ call.fn = "extract_text_from_file"
    /\ ~call.done
    /\ call' = [call EXCEPT !.done = TRUE,
                    !.result = ExtractText(call.name, call.ctype, call.size, call.parse)]
    /\ UNCHANGED service

NextExtract == upload_read

SpecExtract == InitExtract /\ [][NextExtract]_vars

\* C17: every upload larger than 10 MiB is rejected with the 413 size
\* error, whatever its declared type, its name and what a parser would make
\* of it; one of exactly 10 MiB is not rejected for its size.
C17_OversizeRejected413 ==
    call.done =>
        /\ call.size > 10 * 1024 * 1024 =>
              call.result = [status |-> 413, detail |-> "File size exceeds limit",
                             text |-> "none"]
        /\ call.size <= 10 * 1024 * 1024 => call.result.status # 413

C17_Witness ==
    /\ call.done /\ call.size = 10 * 1024 * 1024 + 1
    /\ call.ctype = "image/png" /\ call.name = ".exe"
    /\ call.result.status = 413

\* The upload's type is one the extractor has a parser for, by declared
\* content type or by the ending of its name.
SupportedType(name, ctype) ==
    \/ ctype \in {"application/pdf", "application/docx", "application/msword",
                  "text/markdown", "text/plain"}
    \/ Lower(name) \in {".pdf", ".docx", ".doc", ".md", ".txt"}

\* C18: the three user-facing errors of the extractor are told apart:
\* empty content gives 400 "file is empty" for every declared type; a type
\* that is none of PDF, Word, text/markdown by content type or name gives
\* 415; a parser failure on a supported type gives a 400 parse error; and
\* none of them comes out as another, or as 500.
C18_ExtractionErrorsDistinct ==
    LET inRange == 0 < call.size /\ call.size <= 10 * 1024 * 1024
        isEmpty == call.result.status = 400
                   /\ call.result.detail = "Uploaded file is empty."
        isUnsupported == call.result.status = 415
                         /\ call.result.detail = "Unsupported file type"
        isParse == call.result.status = 400
                   /\ call.result.detail \in {"Could not parse PDF file",
                                              "Could not parse Word file"}
    IN  call.done =>
            /\ isEmpty <=> call.size = 0
            /\ isUnsupported <=> (inRange /\ ~SupportedType(call.name, call.ctype))
            /\ isParse <=> (inRange /\ SupportedType(call.name, call.ctype)
                            /\ call.parse = "fail")
            /\ call.result.status \in {0, 400, 413, 415}
            /\ call.result.status = 0 => call.result.text \in {"text", "empty"}

C18_Witness ==
    /\ call.done /\ call.size = 0
    /\ call.ctype = "image/png" /\ call.name = ".exe"
    /\ call.result.detail = "Uploaded file is empty."

\* ------------------------------------------- the upload of /convert-latex
\* C19: /convert-latex takes only an upload whose name ends, in any case,
\* in .pdf, .md, .docx or .doc: an authenticated, under-quota request with
\* an empty name or another ending is answered with a 400/415 input error
\* and does no extraction, model call, compiler call, upload, insert or
\* counter write; one with such an ending is let on to the extraction.
C19_ConvertLatexAllowList ==
    \A r \in Reqs :
        ( /\ req[r].ep = "convert_latex" /\ req[r].pc # "idle"
          /\ req[r].seen.read = "ok" /\ req[r].daily >= 0
          /\ ~Has(r, "extract") ) =>
            IF Lower(req[r].filename) \in {".pdf", ".md", ".docx", ".doc"}
            THEN req[r].pc = "extract"
            ELSE /\ Answered(r)
                 /\ req[r].status \in {400, 415}
                 /\ req[r].steps = << "auth", "quota" >>
                 /\ NoEffects(r)

C19_Witness ==
    \E r1, r2 \in Reqs :
        /\ req[r1].ep = "convert_latex" /\ req[r1].filename = ".txt"
        /\ req[r1].status = 400 /\ req[r1].seen.read = "ok"
        /\ req[r2].ep = "convert_latex" /\ req[r2].filename = ".PDF"
        /\ req[r2].pc = "extract"

\* ------------------------------------------- generate_latex_resume alone
MaxBody == 3          \* characters of the LaTeX between the fences

\* The grave accent, of which a fence has three.
Tick == "tick"
\* The opening fence with the line feed that ends it (9 characters) and
\* the closing fence with the line feed before it (4 characters).
OpeningFence == << Tick, Tick, Tick, "l", "a", "t", "e", "x", "\n" >>
ClosingFence == << "\n", Tick, Tick, Tick >>

\* str.startswith, str.endswith
startswith(text, prefix) ==
    Len(text) >= Len(prefix) /\ SubSeq(text, 1, Len(prefix)) = prefix
endswith(text, suffix) ==
    Len(text) >= Len(suffix)
    /\ SubSeq(text, Len(text) - Len(suffix) + 1, Len(text)) = suffix

\* resume_processor.generate_latex_resume on the string the model gave:
\* latex_resume[8:] after a leading fence, then [:-4] before a trailing one
StripFences(latex_resume) ==
    LET unfenced == IF startswith(latex_resume, OpeningFence)
                    THEN SubSeq(latex_resume, 9, Len(latex_resume))
                    ELSE latex_resume
    IN  IF endswith(unfenced, ClosingFence)
        THEN SubSeq(unfenced, 1, Len(unfenced) - 4)
        ELSE unfenced

\* What the model writes between the fences, and around it.
Bodies == UNION { [1..k -> {"x", "\n", Tick}] : k \in 0..MaxBody }

InitFence ==
    /\ AtStartup
    /\ \E body \in Bodies, lead \in BOOLEAN, trail \in BOOLEAN :
          call = [fn |-> "generate_latex_resume", body |-> body,
                  lead |-> lead, trail |-> trail,
                  output |-> (IF lead THEN OpeningFence ELSE << >>) \o body
                             \o (IF trail THEN ClosingFence ELSE << >>),
                  done |-> FALSE, result |-> << >>]

\* chain.ainvoke has returned that string
chain_answers ==
    /\ call.fn = "generate_latex_resume"
    /\ ~call.done
    /\ call' = [call EXCEPT !.done = TRUE, !.result = StripFences(call.output)]
    /\ UNCHANGED service

NextFence == chain_answers

SpecFence == InitFence /\ [][NextFence]_vars

\* C20 as stated: for a model output made of the opening fence line, body
\* and the closing fence line the function returns exactly body, nothing of either marker line
\* left over (nor the newline that ends the opening one); an output with
\* neither a leading nor a trailing fence is returned unchanged; fences in
\* the middle stay.
C20_FencesStrippedExactly ==
    call.done =>
        /\ (call.lead /\ call.trail) => call.result = call.body
        /\ (~startswith(call.output, OpeningFence)
            /\ ~endswith(call.output, ClosingFence)) => call.result = call.output

\* ---------------------------------------- generate_tailored_resume alone
MaxPad == 1           \* white space before and after the model's text

SHORT_LENGTH == 100

\* The letters the refusal phrases are written in, small and capital.
Smalls == << "a", "c", "d", "e", "f", "h", "i", "l", "m", "n", "o", "p", "r", "s", "t", "u", "v", "y" >>
Capitals == << "A", "C", "D", "E", "F", "H", "I", "L", "M", "N", "O", "P", "R", "S", "T", "U", "V", "Y" >>
\* str.lower(), str.upper() on a text (a sequence of characters)
lower(text) ==
    [i \in 1..Len(text) |->
        IF \E k \in 1..Len(Capitals) : Capitals[k] = text[i]
        THEN Smalls[CHOOSE k \in 1..Len(Capitals) : Capitals[k] = text[i]]
        ELSE text[i]]
upper(text) ==
    [i \in 1..Len(text) |->
        IF \E k \in 1..Len(Smalls) : Smalls[k] = text[i]
        THEN Capitals[CHOOSE k \in 1..Len(Smalls) : Smalls[k] = text[i]]
        ELSE text[i]]

Whitespace == {" ", "\n"}
\* str.strip()
strip(text) ==
    LET inked == { i \in 1..Len(text) : text[i] \notin Whitespace }
    IN  IF inked = {} THEN << >>
        ELSE SubSeq(text, CHOOSE i \in inked : \A j \in inked : i <= j,
                          CHOOSE i \in inked : \A j \in inked : i >= j)

\* p in text
contains(text, p) ==
    \E i \in 1..(Len(text) - Len(p) + 1) : SubSeq(text, i, i + Len(p) - 1) = p

refusal_patterns ==
    << << "p", "r", "o", "v", "i", "d", "e", " ", "t", "h", "e", " ", "c", "o", "n", "t", "e", "n", "t" >>,
       << "r", "e", "a", "d", "y", " ", "t", "o", " ", "h", "e", "l", "p" >>,
       << "c", "a", "n", "n", "o", "t", " ", "f", "u", "l", "f", "i", "l", "l" >>,
       << "i", " ", "n", "e", "e", "d", " ", "t", "h", "e", " ", "r", "e", "s", "u", "m", "e" >> >>

\* What chain.ainvoke gives generate_tailored_resume: it raises, or returns
\* something that is no string, or a string.
Raised == [kind |-> "raise", text |-> << >>]
NonString == [kind |-> "nonstring", text |-> << >>]
String(text) == [kind |-> "string", text |-> text]

TailoredResult_scanning_any_length(resume_content, job_description, out) ==
    LET raise(e) == [error |-> e, called |-> e # "ValueError", text |-> << >>]
    IN  IF resume_content = "empty" \/ job_description = "empty"
        THEN raise("ValueError")
        ELSE IF out.kind # "string" \/ strip(out.text) = << >>
        THEN raise("RuntimeError")
        ELSE IF \E k \in 1..Len(refusal_patterns) :
                    contains(lower(out.text), refusal_patterns[k])
        THEN raise("RuntimeError")
        ELSE [error |-> "", called |-> TRUE, text |-> strip(out.text)]

\* resume_processor.generate_tailored_resume: the exception that leaves it
\* ("": none), whether it called the model, and the text it returns.
TailoredResult(resume_content, job_description, out) ==
    LET raise(e) == [error |-> e, called |-> e # "ValueError", text |-> << >>]
    IN  IF resume_content = "empty" \/ job_description = "empty"
        THEN raise("ValueError")
        ELSE IF out.kind # "string" \/ strip(out.text) = << >>
        THEN raise("RuntimeError")
        ELSE IF Len(out.text) < SHORT_LENGTH
                /\ \E k \in 1..Len(refusal_patterns) :
                      contains(lower(out.text), refusal_patterns[k])
        THEN raise("RuntimeError")
        ELSE [error |-> "", called |-> TRUE, text |-> strip(out.text)]

\* A text of n characters "x".
Fill(n) == [i \in 1..n |-> "x"]
Pad(n, c) == [i \in 1..n |-> c]
\* Lengths of the model's text without the white space around it.
InkLengths == {0, 1, 20, SHORT_LENGTH - 2, SHORT_LENGTH - 1, SHORT_LENGTH}

\* The model's text: a refusal phrase (0: none), in small or capital
\* letters, made up with "x" to ink characters.
Ink(phrase, capital, ink) ==
    LET p == IF phrase = 0 THEN << >>
             ELSE IF capital THEN upper(refusal_patterns[phrase])
             ELSE refusal_patterns[phrase]
    IN  IF Len(p) >= ink THEN p ELSE Fill(ink - Len(p)) \o p

InitTailor ==
    /\ AtStartup
    /\ \E resume_content \in {"empty", "text"}, job_description \in {"empty", "text"},
          kind \in {"raise", "nonstring", "string"} :
       \E phrase \in IF kind = "string" THEN 0..Len(refusal_patterns) ELSE {0},
          capital \in IF kind = "string" THEN BOOLEAN ELSE {FALSE},
          ink \in IF kind = "string" THEN InkLengths ELSE {0},
          lead \in IF kind = "string" THEN 0..MaxPad ELSE {0},
          trail \in IF kind = "string" THEN 0..MaxPad ELSE {0} :
          /\ phrase # 0 => ink # 0
          /\ call = [fn |-> "generate_tailored_resume",
                     resume_content |-> resume_content,
                     job_description |-> job_description,
                     phrase |-> phrase, ink |-> Ink(phrase, capital, ink),
                     out |-> IF kind = "raise" THEN Raised
                             ELSE IF kind = "nonstring" THEN NonString
                             ELSE String(Pad(lead, " ") \o Ink(phrase, capital, ink)
                                         \o Pad(trail, "\n")),
                     done |-> FALSE, status |-> 0,
                     result |-> [error |-> "", called |-> FALSE, text |-> << >>]]

\* /tailor calls generate_tailored_resume and the model answers
tailoring_returns ==
    /\ call.fn = "generate_tailored_resume"
    /\ ~call.done
    /\ LET res == TailoredResult(call.resume_content, call.job_description, call.out)
       IN  call' = [call EXCEPT !.done = TRUE, !.result = res,
                        !.status = IF res.error = "" THEN 200
                                   ELSE Surface("tailor", res.error)]
    /\ UNCHANGED service

NextTailor == tailoring_returns

SpecTailor == InitTailor /\ [][NextTailor]_vars

\* C21: generate_tailored_resume fails with RuntimeError (500) when the
\* model's output is no string, is empty or only white space, or is shorter
\* than 100 characters and holds a refusal phrase in any case; otherwise it
\* returns the output without the white space around it, so an output of
\* 100 characters or more is never turned down for a phrase; empty resume
\* text or job description is a ValueError (400) and the model is not called.
C21_TailoredOutputValidation ==
    call.done =>
        IF call.resume_content = "empty" \/ call.job_description = "empty"
        THEN /\ call.result.error = "ValueError" /\ call.status = 400
             /\ ~call.result.called
        ELSE IF \/ call.out.kind = "nonstring"
                \/ (call.out.kind = "string" /\ call.ink = << >>)
                \/ (call.out.kind = "string" /\ Len(call.out.text) < 100
                    /\ call.phrase # 0)
        THEN call.result.error = "RuntimeError" /\ call.status = 500
        ELSE IF call.out.kind = "string"
        THEN /\ call.result.error = "" /\ call.status = 200
             /\ call.result.text = call.ink
        ELSE call.result.error = "RuntimeError" /\ call.status = 500

C21_Witness ==
    /\ call.done /\ call.phrase # 0 /\ call.out.kind = "string"
    /\ Len(call.out.text) = 100 /\ Len(call.ink) = 99
    /\ call.result.error = "" /\ call.result.text = call.ink
    /\ call.resume_content = "text" /\ call.job_description = "text"

\* --------------------------------------- requests in the same directory
\* The requests that take the step: those whose handler moved.
Movers == { r \in Reqs : req'[r].steps # req[r].steps \/ req'[r].pc # req[r].pc }

\* C22: concurrent PDF requests do not meet in the working directory: no
\* two requests have the same base name; every file that appears in or
\* disappears from the directory in a step carries the base name of the
\* request that takes the step, so no request's cleanup removes a file of
\* another; and the object a request uploads is named after its own
\* compiled PDF.
C22_NoInterferenceInWorkingDirectory ==
    /\ [](\A r1, r2 \in Reqs :
            (r1 # r2 /\ req[r1].base # 0) => req[r1].base # req[r2].base)
    /\ [][ /\ \A f \in (latex_output \ latex_output') \cup (latex_output' \ latex_output) :
                \E r \in Movers : f[1] = req'[r].base
           /\ \A b \in bucket' \ bucket :
                \E r \in Movers : /\ b = req'[r].base
                                  /\ req'[r].pdf = "nonempty"
                                  /\ req'[r].public_url = b ]_vars

C22_Witness ==
    \E r1, r2 \in Reqs :
        /\ r1 # r2
        /\ req[r1].pc = "pdflatex" /\ FilesOf(r1) = {".tex"} /\ req[r1].base = r1
        /\ Answered(r2) /\ req[r2].status = 200 /\ req[r2].removal = "ok"
        /\ req[r2].base = r2 /\ FilesOf(r2) = {}
        /\ ~req[r2].alone

\* ------------------------------------------------- the increment race
\* C23: the increments of one user are last-write-wins: a request writes
\* the counters it read at its own gate plus one, without reading again, so
\* when two requests of a user both read (d, m) at the gate and both
\* succeed the row ends at (d + 1, m + 1), not (d + 2, m + 2); and whenever
\* a row changes, its new value is the gate reading of the request that
\* takes the step, plus one.
C23_IncrementLastWriteWins ==
    /\ [](\A r1, r2 \in Reqs :
            ( /\ r1 # r2 /\ req[r1].user_id = req[r2].user_id
              /\ Answered(r1) /\ req[r1].status = 200 /\ req[r1].incr = "ok"
              /\ Answered(r2) /\ req[r2].status = 200 /\ req[r2].incr = "ok"
              /\ req[r1].seen.row.present /\ req[r1].seen.row = req[r2].seen.row ) =>
                user_usage[req[r1].user_id] =
                    Row(req[r1].seen.row.daily + 1, req[r1].seen.row.monthly + 1))
    /\ [][ \A u \in Users :
             user_usage'[u] # user_usage[u] =>
                \E r \in Movers :
                    /\ req'[r].user_id = u /\ req'[r].incr = "ok"
                    /\ req'[r].seen.row.present
                    /\ user_usage'[u] = Row(req'[r].seen.row.daily + 1,
                                            req'[r].seen.row.monthly + 1) ]_vars

C23_Witness ==
    \E r1, r2 \in Reqs :
        /\ r1 # r2 /\ req[r1].user_id = "u1" /\ req[r2].user_id = "u1"
        /\ Answered(r1) /\ req[r1].status = 200 /\ req[r1].incr = "ok"
        /\ Answered(r2) /\ req[r2].status = 200 /\ req[r2].incr = "ok"
        /\ req[r1].seen.row = Row(2, 29) /\ req[r2].seen.row = Row(2, 29)
        /\ user_usage["u1"] = Row(3, 30)

\* ------------------------------------------- one user against the quota
QuotaReqs == 4        \* requests of the one user

\* One user, with a row at (0, 0), sends /tailor requests; the usage store
\* answers every call, the uploads are good, and only the model may fail.
Jobs == 1..QuotaReqs

InitQuota ==
    /\ secret = TRUE
    /\ email_secret = TRUE
    /\ resume_tailoring_chain = TRUE
    /\ latex_conversion_chain = TRUE
    /\ user_usage = Table(Row(0, 0), NoRow)
    /\ resume_table = << >>
    /\ bucket = {}
    /\ latex_output = {}
    /\ outbox = {}
    /\ req = [j \in Jobs |-> Idle]
    /\ call = NoCall

\* tailor_resume_endpoint up to its first await
quota_request_arrives(j) ==
    /\ req[j].pc = "idle"
    /\ IF j = 1 THEN TRUE ELSE req[j - 1].pc # "idle"
    /\ LET others == { o \in Jobs \ {j} : InFlight(o) }
           q0 == [Idle EXCEPT !.ep = "tailor",
                              !.token = [kind |-> "valid", sub |-> "u1", email |-> TRUE],
                              !.pc = "auth", !.alone = (others = {})]
           w == Await(check_filename(
                        check_user_usage_limits(
                            get_user_id_from_jwt([World(j) EXCEPT !.q = q0]), TRUE),
                        ".pdf"), "extract")
       IN  /\ req' = [o \in Jobs |->
                        IF o = j THEN w.q
                        ELSE IF o \in others THEN [req[o] EXCEPT !.alone = FALSE]
                        ELSE req[o]]
           /\ UNCHANGED << config, user_usage, resume_table, bucket, latex_output,
                           outbox, call >>

\* the upload has been read and its text extracted
quota_extract_returns(j) ==
    /\ req[j].pc = "extract"
    /\ LET w0 == [World(j) EXCEPT !.q.filename = ""]
       IN  Commit(j, invoke_chain(
               extract_text_from_file(w0, req[j].filename, "application/pdf", 1, "text")))

\* the model has answered: the increment and the response
quota_model_returns(j) ==
    /\ req[j].pc = "model"
    /\ \E out \in {"long", "raise"} :
          Commit(j, respond(increment_user_usage(
                                generate_tailored_resume(World(j), out), TRUE)))

NextQuota ==
    \E j \in Jobs :
        \/ quota_request_arrives(j)
        \/ quota_extract_returns(j)
        \/ quota_model_returns(j)

SpecQuota == InitQuota /\ [][NextQuota]_vars

\* The requests answered 200.
Completed == { j \in Jobs : Answered(j) /\ req[j].status = 200 }

\* C24 as stated: for a user whose row starts at (0, 0), with no reset and
\* the usage store never failing, in every interleaving of the user's
\* requests, sequential or concurrent, at most 3 requests are answered 200.
C24_AtMostThreeCompleted ==
    Cardinality(Completed) <= 3

\* C24, amended: when the user's requests come one after another (none is
\* in flight together with another) at most 3 are answered 200, and the
\* next one is turned down at the gate; whatever the interleaving, a
\* request is answered 200 only if its own gate read a daily counter below
\* 3 and a monthly counter below 30.
C24_AtMostThreeCompletedInSequence ==
    /\ (\A j \in Jobs : req[j].alone) =>
          /\ Cardinality(Completed) <= 3
          /\ \A j \in Jobs :
                (Answered(j) /\ user_usage["u1"].daily >= 3 /\ req[j].seen.row.daily >= 3)
                    => req[j].status = 429
    /\ \A j \in Completed :
          /\ req[j].seen.read = "ok"
          /\ req[j].seen.row.daily < 3 /\ req[j].seen.row.monthly < 30

C24_Witness ==
    /\ \A j \in Jobs : req[j].alone /\ Answered(j)
    /\ Cardinality(Completed) = 3
    /\ \E j \in Jobs : req[j].status = 429 /\ req[j].seen.row = Row(3, 3)
    /\ user_usage["u1"] = Row(3, 3)

\* ------------------------------------------------ objects and their rows
\* C25 as stated: after every finished request, every PDF the request put
\* in the bucket has an audit row in resume_table with its public URL, also
\* when the insert fails after the upload succeeded.
C25_NoUploadWithoutRecord ==
    \A r \in Reqs :
        (Answered(r) /\ req[r].public_url # 0 /\ req[r].public_url \in bucket) =>
            \E i \in DOMAIN resume_table :
                resume_table[i].resume_link = req[r].public_url

\* ------------------------------------------------------ the gate's read
\* C26: the quota gate fails closed: when its read of the usage store
\* fails, check_user_usage_limits raises 500 "Usage check failed", the
\* request is answered 500, and there is no extraction, model call,
\* compiler call, upload, insert, email or counter write for it.
C26_GateFailsClosed ==
    \A r \in Reqs :
        req[r].seen.read = "error" =>
            /\ Answered(r)
            /\ req[r].status = 500
            /\ req[r].detail = "Usage check failed"
            /\ req[r].steps = << "auth", "quota" >>
            /\ NoEffects(r)

C26_Witness ==
    \E r1, r2 \in Reqs :
        /\ req[r1].seen.read = "error" /\ req[r1].status = 500
        /\ req[r1].ep = "convert_json"
        /\ req[r2].seen.read = "error" /\ req[r2].status = 500
        /\ req[r2].ep = "tailor"
        /\ req[r1].user_id = req[r2].user_id

\* ------------------------------------------------ every request answered
\* One request from its arrival to its response.  No step of a handler
\* waits for another request (the guards of the actions read only the
\* request's own position), so one request is followed on its own.
NextLive ==
    \/ request_arrives(1)
    \/ extract_returns(1)
    \/ model_returns(1)
    \/ pdflatex_returns(1)

\* Every call a handler awaits returns or raises in the end: the upload is
\* read, the model answers, pdflatex exits.  Nothing makes a client send.
Returns ==
    /\ WF_vars(extract_returns(1))
    /\ WF_vars(model_returns(1))
    /\ WF_vars(pdflatex_returns(1))

SpecLive == Init /\ [][NextLive]_vars /\ Returns

\* C27: with every external call returning or raising in the end, every
\* request to the three endpoints gets exactly one response, a success or
\* an HTTP error, whatever the outcomes of the calls: a request that has
\* come in is answered in the end, an answered request has one response
\* with a status, an unanswered one has none, and an answer is never
\* followed by another.
C27_ExactlyOneResponse ==
    /\ \A r \in Reqs : (req[r].pc # "idle") ~> Answered(r)
    /\ [](\A r \in Reqs :
            /\ Answered(r) =>
                  /\ req[r].responses = 1
                  /\ req[r].status \in {200, 400, 401, 403, 413, 415, 429, 500, 503}
            /\ ~Answered(r) => req[r].responses = 0 /\ req[r].status = 0)
    /\ [][ \A r \in Reqs :
             Answered(r) => /\ req'[r].pc = "done"
                            /\ req'[r].status = req[r].status
                            /\ req'[r].body = req[r].body
                            /\ req'[r].responses = 1 ]_vars

C27_Witness ==
    \E r \in Reqs :
        /\ Answered(r) /\ req[r].ep = "convert_json" /\ req[r].status = 200
        /\ req[r].email_sent = "false" /\ req[r].removal = "failed"
        /\ req[r].incr = "failed" /\ req[r].responses = 1
====
